---- MODULE Spec2Model ----
(***************************************************************************)
(* A model of the explicit-free-list heap allocator of explicit.c.         *)
(*                                                                         *)
(* The managed region is modelled as an array of 8-byte words indexed by   *)
(* their byte address: every access the allocator makes is an aligned      *)
(* 8-byte load or store (the header word, the prev link at offset 8, the   *)
(* next link at offset 16), and memcpy moves whole words because payload   *)
(* sizes are multiples of 8.                                               *)
(***************************************************************************)
EXTENDS Integers, Sequences, FiniteSets, TLC

VARIABLES
    mem,             \* the words of the region: [word address -> value]
    segment_start,   \* header* segment_start
    freelist_start,  \* header* freelist_start
    segment_size,    \* size_t segment_size
    heap_end,        \* void* heap_end
    status,          \* "uninit", "ready", "aborted", "undefined" or "corrupt"
    live,            \* the pointers the caller holds: returned and not released
    last             \* the last call: its name, arguments and return value

vars == <<mem, segment_start, freelist_start, segment_size, heap_end,
          status, live, last>>

(***************************************************************************)
(* Bounds of the model.                                                    *)
(***************************************************************************)
\* The largest region handed to myinit, in 8-byte words.
MaxHeapWords == 9

(***************************************************************************)
(* Constants of the program.                                               *)
(***************************************************************************)
NULL == 0
\* allocator.h: the alignment unit.
ALIGNMENT == 8
\* allocator.h: the largest request mymalloc accepts.  The header is a
\* configuration constant; the model takes a value smaller than the largest
\* region so that the test against it decides some calls.
MAX_REQUEST_SIZE == 40
\* size_t and unsigned long arithmetic wraps.  The model's integers are
\* 32 bits wide, so the 64-bit word is scaled down to 16 bits: SIZE_MOD
\* stands for 2^64 and SIZE_MOD - 1 for SIZE_MAX.
SIZE_MOD == 65536
\* FREE_MASK = 7: x & FREE_MASK is x % (FREE_MASK + 1).
FREE_MASK == 7
\* offsets of the fields of struct header
PREV_OFFSET == 8
NEXT_OFFSET == 16
\* The address myinit is given as heap_start (any non-null aligned address).
HeapBase == 64
\* The value the word at address a holds when myinit is handed the region.
\* The region is not initialised, so any value is possible; the model takes a
\* different value for every word, so that a word that was copied or
\* overwritten can be told from one that was not.
Blank(a) == a + 1

\* x & ~m for a mask m = 2^k - 1
AndNot(x, m) == x - (x % (m + 1))
\* x & m for a mask m = 2^k - 1
AndMask(x, m) == x % (m + 1)
\* unsigned addition
AddU(a, b) == (a + b) % SIZE_MOD
\* unsigned subtraction
SubU(a, b) == (a - b) % SIZE_MOD

Min(a, b) == IF a < b THEN a ELSE b

(***************************************************************************)
(* The heap the functions work on: hp.mem is the region, hp.fl is           *)
(* freelist_start.  segment_start, segment_size and heap_end are written   *)
(* by myinit alone and read from the state.                                *)
(***************************************************************************)
Heap == [mem |-> mem, fl |-> freelist_start]

get_payload(m, block) == AndNot(m[block], FREE_MASK)

check_free(m, block) ==
    IF block = NULL THEN FALSE ELSE AndMask(m[block], FREE_MASK) = 0

roundup(sz, mult) ==
    LET corrected == AndNot(AddU(sz, mult - 1), mult - 1)
    IN  IF corrected < 16 THEN 16 ELSE corrected

\* search_from with > for >=: a block that fits exactly is passed over
RECURSIVE search_from_strict(_, _, _)
search_from_strict(m, curr, request) ==
    IF curr = NULL THEN NULL
    ELSE IF check_free(m, curr) /\ get_payload(m, curr) > request THEN curr
    ELSE search_from_strict(m, m[curr + NEXT_OFFSET], request)

\* search_from that keeps scanning after a fit: the last block of the list
\* that fits is returned, not the first
RECURSIVE search_from_last(_, _, _)
search_from_last(m, curr, request) ==
    IF curr = NULL THEN NULL
    ELSE LET later == search_from_last(m, m[curr + NEXT_OFFSET], request)
         IN  IF later # NULL THEN later
             ELSE IF check_free(m, curr) /\ get_payload(m, curr) >= request
                  THEN curr
                  ELSE NULL

RECURSIVE search_from(_, _, _)
search_from(m, curr, request) ==
    IF curr = NULL THEN NULL
    ELSE IF check_free(m, curr) /\ get_payload(m, curr) >= request THEN curr
    ELSE search_from(m, m[curr + NEXT_OFFSET], request)

search_freelist(hp, request) == search_from(hp.mem, hp.fl, request)

\* remove_freelist without (*new_front).prev = NULL: the new head keeps its
\* link to the block removed
remove_freelist_stale(hp, new) ==
    LET prev == hp.mem[new + PREV_OFFSET]
        next == hp.mem[new + NEXT_OFFSET]
    IN  IF prev = NULL
        THEN IF next = NULL
             THEN [hp EXCEPT !.fl = NULL]
             ELSE [hp EXCEPT !.fl = next]
        ELSE LET m1 == IF next # NULL
                       THEN [hp.mem EXCEPT ![next + PREV_OFFSET] = prev]
                       ELSE hp.mem
             IN  [hp EXCEPT !.mem = [m1 EXCEPT ![prev + NEXT_OFFSET] = next]]

remove_freelist(hp, new) ==
    LET prev == hp.mem[new + PREV_OFFSET]
        next == hp.mem[new + NEXT_OFFSET]
    IN  IF prev = NULL
        THEN IF next = NULL
             THEN [hp EXCEPT !.fl = NULL]
             ELSE [mem |-> [hp.mem EXCEPT ![next + PREV_OFFSET] = NULL],
                   fl  |-> next]
        ELSE LET m1 == IF next # NULL
                       THEN [hp.mem EXCEPT ![next + PREV_OFFSET] = prev]
                       ELSE hp.mem
             IN  [hp EXCEPT !.mem = [m1 EXCEPT ![prev + NEXT_OFFSET] = next]]

get_next_block(m, block) ==
    LET next_location == block + get_payload(m, block) + ALIGNMENT
    IN  IF next_location = heap_end THEN NULL ELSE next_location

\* coalesce without remove_freelist(next_block): the neighbour is absorbed
\* but stays in the free list
coalesce_keep(hp, block) ==
    LET next_block == get_next_block(hp.mem, block)
    IN  IF next_block = NULL \/ ~check_free(hp.mem, next_block)
        THEN hp
        ELSE LET added_space == get_payload(hp.mem, next_block) + ALIGNMENT
             IN  [hp EXCEPT !.mem[block] = AddU(hp.mem[block], added_space)]

\* coalesce without (*block).payload += added_space: the neighbour leaves
\* the free list but the block does not grow over it
coalesce_nogrow(hp, block) ==
    LET next_block == get_next_block(hp.mem, block)
    IN  IF next_block = NULL \/ ~check_free(hp.mem, next_block)
        THEN hp
        ELSE remove_freelist(hp, next_block)

coalesce(hp, block) ==
    LET next_block == get_next_block(hp.mem, block)
    IN  IF next_block = NULL \/ ~check_free(hp.mem, next_block)
        THEN hp
        ELSE LET added_space == get_payload(hp.mem, next_block) + ALIGNMENT
                 h1 == remove_freelist(hp, next_block)
             IN  [h1 EXCEPT !.mem[block] = AddU(h1.mem[block], added_space)]

add_freelist(hp, new) ==
    IF hp.fl = NULL
    THEN [mem |-> [hp.mem EXCEPT ![new + PREV_OFFSET] = NULL,
                                 ![new + NEXT_OFFSET] = NULL],
          fl  |-> new]
    ELSE [mem |-> [hp.mem EXCEPT ![hp.fl + PREV_OFFSET] = new,
                                 ![new + NEXT_OFFSET] = hp.fl,
                                 ![new + PREV_OFFSET] = NULL],
          fl  |-> new]

\* add_block without shrinking the block it splits: the block keeps its
\* payload_val and the new block lies inside it
add_block_keep(hp, block, request) ==
    LET free == check_free(hp.mem, block)
        payload_val == get_payload(hp.mem, block)
        new == block + request + ALIGNMENT
        m1 == [hp.mem EXCEPT ![block] = payload_val + 1,
                             ![new] = SubU(SubU(payload_val, request), ALIGNMENT)]
        h1 == [hp EXCEPT !.mem = m1]
        h2 == IF free THEN remove_freelist(h1, block) ELSE h1
    IN  coalesce(add_freelist(h2, new), new)

\* add_block without the + 1 of (*block).payload = request + 1: the block
\* handed out is still flagged free
add_block_unflagged(hp, block, request) ==
    LET free == check_free(hp.mem, block)
        payload_val == get_payload(hp.mem, block)
        new == block + request + ALIGNMENT
        m1 == [hp.mem EXCEPT ![block] = request,
                             ![new] = SubU(SubU(payload_val, request), ALIGNMENT)]
        h1 == [hp EXCEPT !.mem = m1]
        h2 == IF free THEN remove_freelist(h1, block) ELSE h1
    IN  coalesce(add_freelist(h2, new), new)

add_block(hp, block, request) ==
    LET free == check_free(hp.mem, block)
        payload_val == get_payload(hp.mem, block)
        new == block + request + ALIGNMENT
        m1 == [hp.mem EXCEPT ![block] = request + 1,
                             ![new] = SubU(SubU(payload_val, request), ALIGNMENT)]
        h1 == [hp EXCEPT !.mem = m1]
        h2 == IF free THEN remove_freelist(h1, block) ELSE h1
    IN  coalesce(add_freelist(h2, new), new)

RECURSIVE coalesce_multiple_blocks(_, _, _)
coalesce_multiple_blocks(hp, block, req) ==
    IF check_free(hp.mem, get_next_block(hp.mem, block))
       /\ get_payload(hp.mem, block) < req
    THEN coalesce_multiple_blocks(coalesce(hp, block), block, req)
    ELSE hp

\* mymalloc with the slack of implicit.c, two alignment units, in the test
\* for the split: the remainder may be a block of payload 8
mymalloc_slack16(hp, requested_size) ==
    LET request == roundup(requested_size, ALIGNMENT)
        free_location == search_freelist(hp, request)
    IN  IF free_location = NULL THEN [hp |-> hp, ret |-> NULL]
        ELSE IF request > MAX_REQUEST_SIZE THEN [hp |-> hp, ret |-> NULL]
        ELSE
          LET payload_val == get_payload(hp.mem, free_location)
              location == free_location
          IN  IF location + payload_val + ALIGNMENT = heap_end
                 /\ payload_val >= AddU(request, ALIGNMENT * 2)
              THEN [hp  |-> add_block(hp, free_location, request),
                    ret |-> location + ALIGNMENT]
              ELSE LET h1 == [hp EXCEPT !.mem[free_location] = AddU(@, 1)]
                   IN  [hp  |-> remove_freelist(h1, free_location),
                        ret |-> location + ALIGNMENT]

\* mymalloc with > for >= in the test for the split: a last block of
\* payload request + 24 exactly is handed out whole
mymalloc_strict(hp, requested_size) ==
    LET request == roundup(requested_size, ALIGNMENT)
        free_location == search_freelist(hp, request)
    IN  IF free_location = NULL THEN [hp |-> hp, ret |-> NULL]
        ELSE IF request > MAX_REQUEST_SIZE THEN [hp |-> hp, ret |-> NULL]
        ELSE
          LET payload_val == get_payload(hp.mem, free_location)
              location == free_location
          IN  IF location + payload_val + ALIGNMENT = heap_end
                 /\ payload_val > AddU(request, ALIGNMENT * 3)
              THEN [hp  |-> add_block(hp, free_location, request),
                    ret |-> location + ALIGNMENT]
              ELSE LET h1 == [hp EXCEPT !.mem[free_location] = AddU(@, 1)]
                   IN  [hp  |-> remove_freelist(h1, free_location),
                        ret |-> location + ALIGNMENT]

mymalloc(hp, requested_size) ==
    LET request == roundup(requested_size, ALIGNMENT)
        free_location == search_freelist(hp, request)
    IN  IF free_location = NULL THEN [hp |-> hp, ret |-> NULL]
        ELSE IF request > MAX_REQUEST_SIZE THEN [hp |-> hp, ret |-> NULL]
        ELSE
          LET payload_val == get_payload(hp.mem, free_location)
              location == free_location
          IN  IF location + payload_val + ALIGNMENT = heap_end
                 /\ payload_val >= AddU(request, ALIGNMENT * 3)
              THEN [hp  |-> add_block(hp, free_location, request),
                    ret |-> location + ALIGNMENT]
              ELSE LET h1 == [hp EXCEPT !.mem[free_location] = AddU(@, 1)]
                   IN  [hp  |-> remove_freelist(h1, free_location),
                        ret |-> location + ALIGNMENT]

\* myfree without (*block).payload -= 1: the block enters the free list
\* still flagged used
myfree_flag(hp, ptr) ==
    IF ptr = NULL THEN hp
    ELSE LET block == ptr - ALIGNMENT
         IN  coalesce(add_freelist(hp, block), block)

myfree(hp, ptr) ==
    IF ptr = NULL THEN hp
    ELSE LET block == ptr - ALIGNMENT
             h1 == [hp EXCEPT !.mem[block] = SubU(@, 1)]
         IN  coalesce(add_freelist(h1, block), block)

\* memcpy(dest, src, n) for n a multiple of 8 and non-overlapping ranges
memcpy(m, dest, src, n) ==
    [a \in DOMAIN m |->
        IF dest <= a /\ a < dest + n THEN m[src + (a - dest)] ELSE m[a]]

\* myrealloc, the body of its "last block on the heap" branch: the excess of
\* the tail block becomes a new free block
split_tail_short(hp, old_ptr, request) ==
    LET old_header == old_ptr - ALIGNMENT
        new == old_ptr + request
        m2 == [hp.mem EXCEPT
                 ![new] = SubU(get_payload(hp.mem, old_header), request),
                 ![old_header] = request + 1]
    IN  add_freelist([hp EXCEPT !.mem = m2], new)

split_tail(hp, old_ptr, request) ==
    LET old_header == old_ptr - ALIGNMENT
        new == old_ptr + request
        m2 == [hp.mem EXCEPT
                 ![new] = SubU(SubU(get_payload(hp.mem, old_header), request),
                               ALIGNMENT),
                 ![old_header] = request + 1]
    IN  add_freelist([hp EXCEPT !.mem = m2], new)

(***************************************************************************)
(* myrealloc.  The result is the set of the outcomes the call can have.    *)
(* When the fresh allocation fails, the code passes the NULL it got to     *)
(* memcpy with a length of at least 16: undefined behaviour.  Then either  *)
(* the call never returns (the store to address 0 traps, or the assert on  *)
(* memcpy's result aborts: st = "aborted"), or nothing was stored and the  *)
(* assert was compiled out, so the code goes on to myfree(old_ptr) and     *)
(* returns the NULL (st = "undefined": the execution is past undefined     *)
(* behaviour, and the model follows it no further).                        *)
(***************************************************************************)
Outcome(hp, ret, st) == [hp |-> hp, ret |-> ret, st |-> st]

\* myrealloc without the test new_size == 0: a resize to zero is served as
\* a resize to the minimum block
myrealloc_nozero(hp, old_ptr, new_size) ==
    IF old_ptr = NULL
    THEN LET r == mymalloc(hp, new_size)
         IN  {Outcome(r.hp, r.ret, "ready")}
    ELSE
      LET request == roundup(new_size, ALIGNMENT)
          old_header == old_ptr - ALIGNMENT
          old_size == get_payload(hp.mem, old_header)
          h1 == coalesce_multiple_blocks(hp, old_header, request)
          cur == get_payload(h1.mem, old_header)
      IN
        IF cur >= request
        THEN
          LET block_end == cur + old_ptr
              h2 == IF block_end = heap_end /\ AddU(request, ALIGNMENT * 3) < cur
                    THEN split_tail(h1, old_ptr, request)
                    ELSE h1
              h3 == IF block_end # heap_end
                       /\ old_size >= AddU(request, ALIGNMENT * 3)
                    THEN add_block(h2, old_header, request)
                    ELSE h2
          IN  {Outcome(h3, old_ptr, "ready")}
        ELSE
          LET r == mymalloc(h1, new_size)
              new_ptr == r.ret
          IN  IF new_ptr = NULL
              THEN {Outcome(r.hp, NULL, "aborted"),
                    Outcome(myfree(r.hp, old_ptr), NULL, "undefined")}
              ELSE LET m3 == memcpy(r.hp.mem, new_ptr, old_ptr, old_size)
                   IN  {Outcome(myfree([r.hp EXCEPT !.mem = m3], old_ptr),
                                new_ptr, "ready")}

myrealloc(hp, old_ptr, new_size) ==
    IF old_ptr = NULL
    THEN LET r == mymalloc(hp, new_size)
         IN  {Outcome(r.hp, r.ret, "ready")}
    ELSE
      LET request == roundup(new_size, ALIGNMENT)
          old_header == old_ptr - ALIGNMENT
          old_size == get_payload(hp.mem, old_header)
      IN
      IF new_size = 0
      THEN {Outcome(myfree(hp, old_ptr), NULL, "ready")}
      ELSE
        LET h1 == coalesce_multiple_blocks(hp, old_header, request)
            cur == get_payload(h1.mem, old_header)
        IN
        IF cur >= request
        THEN
          LET block_end == cur + old_ptr
              h2 == IF block_end = heap_end /\ AddU(request, ALIGNMENT * 3) < cur
                    THEN split_tail(h1, old_ptr, request)
                    ELSE h1
              h3 == IF block_end # heap_end
                       /\ old_size >= AddU(request, ALIGNMENT * 3)
                    THEN add_block(h2, old_header, request)
                    ELSE h2
          IN  {Outcome(h3, old_ptr, "ready")}
        ELSE
          LET r == mymalloc(h1, new_size)
              new_ptr == r.ret
          IN  IF new_ptr = NULL
              THEN {Outcome(r.hp, NULL, "aborted"),
                    Outcome(myfree(r.hp, old_ptr), NULL, "undefined")}
              ELSE LET m3 == memcpy(r.hp.mem, new_ptr, old_ptr, old_size)
                   IN  {Outcome(myfree([r.hp EXCEPT !.mem = m3], old_ptr),
                                new_ptr, "ready")}

RECURSIVE validate_walk(_, _)
validate_walk(index, total_heap_used) ==
    IF index = heap_end THEN total_heap_used = segment_size
    ELSE IF index > heap_end THEN FALSE
    ELSE LET payload_val == get_payload(mem, index)
         IN  IF payload_val % ALIGNMENT # 0 THEN FALSE
             ELSE validate_walk(index + payload_val + ALIGNMENT,
                                total_heap_used + payload_val + ALIGNMENT)

RECURSIVE validate_list(_)
validate_list(curr) ==
    IF curr = NULL THEN TRUE
    ELSE IF ~check_free(mem, curr) \/ get_payload(mem, curr) % ALIGNMENT # 0
         THEN FALSE
         ELSE validate_list(mem[curr + NEXT_OFFSET])

validate_heap ==
    validate_walk(segment_start, 0) /\ validate_list(freelist_start)

(***************************************************************************)
(* The calls of the caller.                                                *)
(***************************************************************************)
\* the region sizes myinit is called with; 16 is below the minimum
HeapSizes == {ALIGNMENT * w : w \in 2..MaxHeapWords}
\* the sizes the caller requests
Sizes == {0, 10, 24, MAX_REQUEST_SIZE, MAX_REQUEST_SIZE + 1, SIZE_MOD - 1}

Region(start, size) == {start + ALIGNMENT * i : i \in 0..((size \div ALIGNMENT) - 1)}

\* The record of a call: its name, its pointer argument, the rounded request
\* it computed (0 when it computes none), the pointer it returned and, for a
\* call that returns a bool, that bool.
Call(op, ptr, request, ret, ok) ==
    [op |-> op, ptr |-> ptr, request |-> request, ret |-> ret, ok |-> ok]

Init ==
    /\ mem = [a \in {} |-> NULL]
    /\ segment_start = NULL
    /\ freelist_start = NULL
    /\ segment_size = 0
    /\ heap_end = NULL
    /\ status = "uninit"
    /\ live = {}
    /\ last = Call("none", NULL, 0, NULL, TRUE)

\* MyInit with the minimum of implicit.c, two alignment units: a region of 16
\* bytes is accepted although its block has no room for the next link
MyInit_min16(heap_start, heap_size) ==
    /\ status = "uninit"
    /\ IF heap_size < ALIGNMENT * 2
       THEN /\ last' = Call("myinit", NULL, 0, NULL, FALSE)
            /\ UNCHANGED <<mem, segment_start, freelist_start, segment_size,
                           heap_end, status, live>>
       ELSE /\ segment_size' = heap_size
            /\ heap_end' = heap_start + heap_size
            /\ segment_start' = heap_start
            /\ mem' = [a \in Region(heap_start, heap_size) |->
                          IF a = heap_start THEN heap_size - ALIGNMENT
                          ELSE IF a \in {heap_start + PREV_OFFSET,
                                         heap_start + NEXT_OFFSET} THEN NULL
                          ELSE Blank(a)]
            /\ freelist_start' = heap_start
            /\ status' = "ready"
            /\ last' = Call("myinit", NULL, 0, NULL, TRUE)
            /\ UNCHANGED live

MyInit(heap_start, heap_size) ==
    /\ status = "uninit"
    /\ IF heap_size < ALIGNMENT * 3
       THEN /\ last' = Call("myinit", NULL, 0, NULL, FALSE)
            /\ UNCHANGED <<mem, segment_start, freelist_start, segment_size,
                           heap_end, status, live>>
       ELSE /\ segment_size' = heap_size
            /\ heap_end' = heap_start + heap_size
            /\ segment_start' = heap_start
            /\ mem' = [a \in Region(heap_start, heap_size) |->
                          IF a = heap_start THEN heap_size - ALIGNMENT
                          ELSE IF a \in {heap_start + PREV_OFFSET,
                                         heap_start + NEXT_OFFSET} THEN NULL
                          ELSE Blank(a)]
            /\ freelist_start' = heap_start
            /\ status' = "ready"
            /\ last' = Call("myinit", NULL, 0, NULL, TRUE)
            /\ UNCHANGED live

MyMalloc(requested_size) ==
    /\ status = "ready"
    /\ LET r == mymalloc(Heap, requested_size)
       IN  /\ mem' = r.hp.mem
           /\ freelist_start' = r.hp.fl
           /\ live' = IF r.ret # NULL THEN live \cup {r.ret} ELSE live
           /\ last' = Call("mymalloc", NULL,
                           roundup(requested_size, ALIGNMENT), r.ret, TRUE)
    /\ UNCHANGED <<segment_start, segment_size, heap_end, status>>

MyFree(ptr) ==
    /\ status = "ready"
    /\ LET h == myfree(Heap, ptr)
       IN  /\ mem' = h.mem
           /\ freelist_start' = h.fl
    /\ live' = live \ {ptr}
    /\ last' = Call("myfree", ptr, 0, NULL, TRUE)
    /\ UNCHANGED <<segment_start, segment_size, heap_end, status>>

MyRealloc(old_ptr, new_size) ==
    /\ status = "ready"
    /\ \E r \in myrealloc(Heap, old_ptr, new_size) :
           /\ mem' = r.hp.mem
           /\ freelist_start' = r.hp.fl
           /\ status' = r.st
           /\ live' = IF r.ret # NULL THEN (live \ {old_ptr}) \cup {r.ret}
                      ELSE IF new_size = 0 THEN live \ {old_ptr}
                      ELSE live
           /\ last' = Call("myrealloc", old_ptr,
                           roundup(new_size, ALIGNMENT), r.ret, TRUE)
    /\ UNCHANGED <<segment_start, segment_size, heap_end>>

ValidateHeap ==
    /\ status \in {"ready", "corrupt"}
    /\ last' = Call("validate_heap", NULL, 0, NULL, validate_heap)
    /\ UNCHANGED <<mem, segment_start, freelist_start, segment_size,
                   heap_end, status, live>>

Next ==
    \/ \E sz \in HeapSizes : MyInit(HeapBase, sz)
    \/ \E n \in Sizes : MyMalloc(n)
    \/ \E p \in live \cup {NULL} : MyFree(p)
    \/ \E p \in live \cup {NULL}, n \in Sizes : MyRealloc(p, n)
    \/ ValidateHeap

Spec == Init /\ [][Next]_vars

(***************************************************************************)
(* The same calls on one region of WideHeapWords words: the smallest       *)
(* region in which a block that is not the last one can absorb a free      *)
(* neighbour and end with 24 bytes more than a request that made it grow   *)
(* (8 + 48 for the block, 8 + 16 for the block behind it).                 *)
(***************************************************************************)
WideHeapWords == 10

NextWide ==
    \/ MyInit(HeapBase, ALIGNMENT * WideHeapWords)
    \/ \E n \in Sizes : MyMalloc(n)
    \/ \E p \in live \cup {NULL} : MyFree(p)
    \/ \E p \in live \cup {NULL}, n \in Sizes : MyRealloc(p, n)
    \/ ValidateHeap

SpecWide == Init /\ [][NextWide]_vars

(***************************************************************************)
(* A caller that breaks the contract.  validate_heap is there to detect    *)
(* what such a caller has done to the heap: here the caller writes one     *)
(* word past the end of a block it holds, onto the header of the block     *)
(* that follows, and leaves that header with its payload size and the flag *)
(* bit it chose.  The heap is then outside what the allocator's functions  *)
(* may be given, and only validate_heap is called on it.                   *)
(***************************************************************************)
Overrun(ptr, flag) ==
    /\ status = "ready"
    /\ LET next_block == get_next_block(mem, ptr - ALIGNMENT)
       IN  /\ next_block # NULL
           /\ mem' = [mem EXCEPT
                         ![next_block] = get_payload(mem, next_block) + flag]
    /\ status' = "corrupt"
    /\ last' = Call("overrun", ptr, 0, NULL, TRUE)
    /\ UNCHANGED <<segment_start, freelist_start, segment_size, heap_end, live>>

NextCaller ==
    \/ Next
    \/ \E p \in live, flag \in {0, 1} : Overrun(p, flag)

SpecCaller == Init /\ [][NextCaller]_vars

(***************************************************************************)
(* The implicit-free-list allocator of implicit.c.  A header is the one    *)
(* word payload_size; there is no free list, so freelist_start stays NULL. *)
(* Each function carries the name it has in implicit.c, with _implicit     *)
(* added to tell it from the function of explicit.c.                       *)
(***************************************************************************)
roundup_implicit(sz, mult) == AndNot(AddU(sz, mult - 1), mult - 1)

\* mymalloc, from the test of the while loop on, with index the block the
\* loop is at.  A walk that has left the region without meeting heap_end
\* reads a header outside it: undefined behaviour, st = "undefined".
RECURSIVE scan_implicit(_, _, _)
scan_implicit(m, index, request) ==
    IF index = heap_end THEN Outcome(m, NULL, "ready")
    ELSE IF index \notin DOMAIN m THEN Outcome(m, NULL, "undefined")
    ELSE
      LET payload == m[index]
          free == AndMask(payload, FREE_MASK) = 0
          payload_value == AndNot(payload, FREE_MASK)
      IN  IF index + payload_value + ALIGNMENT = heap_end
          THEN IF ~free \/ request > payload_value
               THEN Outcome(m, NULL, "ready")
               ELSE IF payload_value >= AddU(request, ALIGNMENT * 2)
               THEN Outcome([m EXCEPT
                               ![index] = request + 1,
                               ![index + request + ALIGNMENT] =
                                   SubU(SubU(payload_value, request), ALIGNMENT)],
                            index + ALIGNMENT, "ready")
               ELSE Outcome([m EXCEPT ![index] = request + 1],
                            index + ALIGNMENT, "ready")
          ELSE IF free /\ payload_value >= request
               THEN Outcome([m EXCEPT ![index] = AddU(payload, 1)],
                            index + ALIGNMENT, "ready")
               ELSE scan_implicit(m, index + payload_value + ALIGNMENT, request)

\* the outcome's hp is the region alone
mymalloc_implicit(m, requested_size) ==
    IF requested_size = 0 THEN Outcome(m, NULL, "ready")
    ELSE scan_implicit(m, segment_start,
                       roundup_implicit(requested_size, ALIGNMENT))

myfree_implicit(m, ptr) ==
    IF ptr = NULL THEN m
    ELSE [m EXCEPT ![ptr - ALIGNMENT] = SubU(@, 1)]

\* the word addresses of the n bytes from addr
WordsOf(addr, n) ==
    {addr + ALIGNMENT * i : i \in 0..(((n + ALIGNMENT - 1) \div ALIGNMENT) - 1)}

\* memcpy(dest, src, n), n any number of bytes: the last word is copied in
\* part when n is no multiple of 8 (the low bytes are the first in memory;
\* a word's value lies in its two low bytes)
memcpy_implicit(m, dest, src, n) ==
    [a \in DOMAIN m |->
        IF dest <= a /\ a < dest + n
        THEN IF dest + n - a = 1
             THEN (m[src + (a - dest)] % 256) + (m[a] - (m[a] % 256))
             ELSE m[src + (a - dest)]
        ELSE m[a]]

\* myrealloc.  memcpy is given new_size bytes to copy whatever the size of
\* the old block.  It is undefined behaviour when new_ptr is NULL, when
\* the bytes read or written leave the region, and when the two ranges
\* overlap; as in explicit.c the call then never returns, or goes on to
\* myfree(old_ptr) and returns what mymalloc gave.
myrealloc_implicit(m, old_ptr, new_size) ==
    IF old_ptr = NULL THEN {mymalloc_implicit(m, new_size)}
    ELSE IF new_size = 0
    THEN {Outcome(myfree_implicit(m, old_ptr), NULL, "ready")}
    ELSE
      LET r == mymalloc_implicit(m, new_size)
          new_ptr == r.ret
      IN  IF r.st # "ready" THEN {r}
          ELSE IF \/ new_ptr = NULL
                  \/ ~(WordsOf(new_ptr, new_size) \subseteq DOMAIN m)
                  \/ ~(WordsOf(old_ptr, new_size) \subseteq DOMAIN m)
                  \/ WordsOf(new_ptr, new_size) \cap WordsOf(old_ptr, new_size) # {}
          THEN {Outcome(r.hp, new_ptr, "aborted"),
                Outcome(myfree_implicit(r.hp, old_ptr), new_ptr, "undefined")}
          ELSE {Outcome(myfree_implicit(
                            memcpy_implicit(r.hp, new_ptr, old_ptr, new_size),
                            old_ptr),
                        new_ptr, "ready")}

RECURSIVE validate_walk_implicit(_)
validate_walk_implicit(index) ==
    IF index = heap_end THEN TRUE
    ELSE IF index > heap_end THEN FALSE
    ELSE validate_walk_implicit(index + get_payload(mem, index) + ALIGNMENT)

validate_heap_implicit == validate_walk_implicit(segment_start)

\* The largest region handed to implicit.c's myinit, in 8-byte words.
MaxHeapWordsImplicit == 6

\* the region sizes myinit is called with; 8 is below the minimum
HeapSizesImplicit == {ALIGNMENT * w : w \in 1..MaxHeapWordsImplicit}

MyInitImplicit(heap_start, heap_size) ==
    /\ status = "uninit"
    /\ IF heap_size < ALIGNMENT * 2
       THEN /\ last' = Call("myinit", NULL, 0, NULL, FALSE)
            /\ UNCHANGED <<mem, segment_start, segment_size, heap_end, status>>
       ELSE /\ segment_start' = heap_start
            /\ segment_size' = heap_size
            /\ heap_end' = heap_start + heap_size
            /\ mem' = [a \in Region(heap_start, heap_size) |->
                          IF a = heap_start THEN heap_size - ALIGNMENT
                          ELSE Blank(a)]
            /\ status' = "ready"
            /\ last' = Call("myinit", NULL, 0, NULL, TRUE)
    /\ UNCHANGED <<freelist_start, live>>

MyMallocImplicit(requested_size) ==
    /\ status = "ready"
    /\ LET r == mymalloc_implicit(mem, requested_size)
       IN  /\ mem' = r.hp
           /\ status' = r.st
           /\ live' = IF r.ret # NULL THEN live \cup {r.ret} ELSE live
           /\ last' = Call("mymalloc", NULL,
                           roundup_implicit(requested_size, ALIGNMENT),
                           r.ret, TRUE)
    /\ UNCHANGED <<segment_start, freelist_start, segment_size, heap_end>>

MyFreeImplicit(ptr) ==
    /\ status = "ready"
    /\ mem' = myfree_implicit(mem, ptr)
    /\ live' = live \ {ptr}
    /\ last' = Call("myfree", ptr, 0, NULL, TRUE)
    /\ UNCHANGED <<segment_start, freelist_start, segment_size, heap_end,
                   status>>

MyReallocImplicit(old_ptr, new_size) ==
    /\ status = "ready"
    /\ \E r \in myrealloc_implicit(mem, old_ptr, new_size) :
           /\ mem' = r.hp
           /\ status' = r.st
           /\ live' = IF r.st # "ready" THEN live
                      ELSE IF r.ret # NULL THEN (live \ {old_ptr}) \cup {r.ret}
                      ELSE IF new_size = 0 THEN live \ {old_ptr}
                      ELSE live
           /\ last' = Call("myrealloc", old_ptr,
                           roundup_implicit(new_size, ALIGNMENT), r.ret, TRUE)
    /\ UNCHANGED <<segment_start, freelist_start, segment_size, heap_end>>

ValidateHeapImplicit ==
    /\ status = "ready"
    /\ last' = Call("validate_heap", NULL, 0, NULL, validate_heap_implicit)
    /\ UNCHANGED <<mem, segment_start, freelist_start, segment_size,
                   heap_end, status, live>>

NextImplicit ==
    \/ \E sz \in HeapSizesImplicit : MyInitImplicit(HeapBase, sz)
    \/ \E n \in Sizes : MyMallocImplicit(n)
    \/ \E p \in live \cup {NULL} : MyFreeImplicit(p)
    \/ \E p \in live \cup {NULL}, n \in Sizes : MyReallocImplicit(p, n)
    \/ ValidateHeapImplicit

SpecImplicit == Init /\ [][NextImplicit]_vars

(***************************************************************************)
(* What the claims speak of: the blocks met by walking the region, and the *)
(* blocks met by following the free list.                                  *)
(***************************************************************************)
\* the addresses of the headers met walking from addr, in address order; the
\* walk ends at the first address that is no word of the region
RECURSIVE BlocksFrom(_, _)
BlocksFrom(m, addr) ==
    IF addr \notin DOMAIN m THEN <<>>
    ELSE <<addr>> \o BlocksFrom(m, addr + ALIGNMENT + get_payload(m, addr))

\* the address at which that walk ends
RECURSIVE WalkEnd(_, _)
WalkEnd(m, addr) ==
    IF addr \notin DOMAIN m THEN addr
    ELSE WalkEnd(m, addr + ALIGNMENT + get_payload(m, addr))

RECURSIVE SumSizes(_, _)
SumSizes(m, bs) ==
    IF bs = <<>> THEN 0
    ELSE ALIGNMENT + get_payload(m, Head(bs)) + SumSizes(m, Tail(bs))

Blocks == BlocksFrom(mem, segment_start)
BlockSet == {Blocks[i] : i \in DOMAIN Blocks}

\* the blocks met following next from curr, at most fuel of them
RECURSIVE ListFrom(_, _, _)
ListFrom(m, curr, fuel) ==
    IF curr = NULL \/ fuel = 0 \/ curr \notin DOMAIN m
       \/ (curr + NEXT_OFFSET) \notin DOMAIN m
    THEN <<>>
    ELSE <<curr>> \o ListFrom(m, m[curr + NEXT_OFFSET], fuel - 1)

\* the link at which that traversal stops: NULL when the list ends
RECURSIVE ListStop(_, _, _)
ListStop(m, curr, fuel) ==
    IF curr = NULL \/ fuel = 0 \/ curr \notin DOMAIN m
       \/ (curr + NEXT_OFFSET) \notin DOMAIN m
    THEN curr
    ELSE ListStop(m, m[curr + NEXT_OFFSET], fuel - 1)

FreeListOf(m, fl) == ListFrom(m, fl, Len(BlocksFrom(m, segment_start)))
FreeList == FreeListOf(mem, freelist_start)
FreeSetOf(m, fl) == {FreeListOf(m, fl)[i] : i \in DOMAIN FreeListOf(m, fl)}
FreeSet == FreeSetOf(mem, freelist_start)

\* the addresses of the payload words of the block handed out as ptr
PayloadWords(m, ptr) ==
    {a \in DOMAIN m : ptr <= a /\ a < ptr + get_payload(m, ptr - ALIGNMENT)}

(***************************************************************************)
(* C1: partition invariant.  After myinit and after any sequence of calls, *)
(* walking from segment_start by 8 + payload lands exactly on heap_end,    *)
(* without overshoot, and the sizes 8 + payload of the blocks add up to    *)
(* segment_size.                                                           *)
(***************************************************************************)
C1_Partition ==
    status # "uninit" =>
        /\ WalkEnd(mem, segment_start) = heap_end
        /\ SumSizes(mem, Blocks) = segment_size

\* a region of three blocks, the middle one split off by a myrealloc that
\* shrank the first in place
C1_Witness ==
    /\ status = "ready"
    /\ Len(Blocks) >= 3
    /\ last.op = "myrealloc"
    /\ last.ptr # NULL
    /\ last.ret = last.ptr
    /\ get_payload(mem, last.ptr - ALIGNMENT) = last.request
    /\ freelist_start = last.ptr + last.request

(***************************************************************************)
(* C2: free-list membership invariant.  A block is flagged free if and     *)
(* only if it is met following next from freelist_start; the traversal     *)
(* ends at NULL within N steps, N the number of blocks, and meets no block *)
(* twice; the head has prev = NULL and a.next = b implies b.prev = a.      *)
(***************************************************************************)
C2_FreeList ==
    status # "uninit" =>
        /\ ListStop(mem, freelist_start, Len(Blocks)) = NULL
        /\ Cardinality(FreeSet) = Len(FreeList)
        /\ \A b \in BlockSet : check_free(mem, b) <=> b \in FreeSet
        /\ FreeSet \subseteq BlockSet
        /\ freelist_start # NULL => mem[freelist_start + PREV_OFFSET] = NULL
        /\ \A i \in 1..(Len(FreeList) - 1) :
               mem[FreeList[i + 1] + PREV_OFFSET] = FreeList[i]

\* a free list of two blocks left by a mymalloc that took a third out of it
C2_Witness ==
    /\ status = "ready"
    /\ Len(FreeList) >= 2
    /\ last.op = "mymalloc"
    /\ last.ret # NULL

(***************************************************************************)
(* C3: no overlap.  The payload ranges [p, p + payload) of two distinct    *)
(* pointers the caller holds are disjoint, and none of them contains the   *)
(* header of a block.                                                      *)
(***************************************************************************)
C3_NoOverlap ==
    /\ \A p, q \in live :
          p # q => PayloadWords(mem, p) \cap PayloadWords(mem, q) = {}
    /\ \A p \in live : PayloadWords(mem, p) \cap BlockSet = {}

\* two pointers held at once, one of them just grown in place by a
\* myrealloc that absorbed the free block to its right
C3_Witness ==
    /\ status = "ready"
    /\ Cardinality(live) >= 2
    /\ last.op = "myrealloc"
    /\ last.ptr # NULL
    /\ last.ret = last.ptr
    /\ last.request > 16
    /\ get_payload(mem, last.ptr - ALIGNMENT) > last.request

(***************************************************************************)
(* C4: resize failure keeps the old block.  When myrealloc(p, n), p not    *)
(* NULL and n > 0, cannot be satisfied in place and the fresh allocation   *)
(* fails, it returns NULL and the block of p is still used, is not in the  *)
(* free list, and its payload words are unchanged.                         *)
(***************************************************************************)
\* myrealloc(p, n) finds the block too small after coalescing and the fresh
\* allocation fails
FreshFails(p, n) ==
    LET request == roundup(n, ALIGNMENT)
        h1 == coalesce_multiple_blocks(Heap, p - ALIGNMENT, request)
    IN  /\ get_payload(h1.mem, p - ALIGNMENT) < request
        /\ mymalloc(h1, n).ret = NULL

C4_FailureKeepsBlock ==
    [][\A p \in live, n \in Sizes \ {0} :
          (status = "ready" /\ FreshFails(p, n) /\ MyRealloc(p, n)) =>
              /\ status' = "ready"
              /\ last'.ret = NULL
              /\ ~check_free(mem', p - ALIGNMENT)
              /\ (p - ALIGNMENT) \notin FreeSetOf(mem', freelist_start')
              /\ \A a \in PayloadWords(mem, p) : mem'[a] = mem[a]]_vars

(***************************************************************************)
(* C5: data preservation.  Whenever myrealloc(p, n) returns a pointer q    *)
(* that is not NULL, the first min(old payload of p, n) bytes at q are the *)
(* bytes that were at p before the call (q = p included).                  *)
(***************************************************************************)
\* the byte offsets of the words that hold some of the first k bytes
WordOffsets(k) == {ALIGNMENT * i : i \in 0..(((k + ALIGNMENT - 1) \div ALIGNMENT) - 1)}

C5_DataPreserved ==
    [][\A p \in live, n \in Sizes :
          (status = "ready" /\ MyRealloc(p, n) /\ last'.ret # NULL) =>
              \A off \in WordOffsets(Min(get_payload(mem, p - ALIGNMENT), n)) :
                  mem'[last'.ret + off] = mem[p + off]]_vars

(***************************************************************************)
(* C6: request too large.  For every requested_size greater than           *)
(* MAX_REQUEST_SIZE, up to SIZE_MAX, mymalloc returns NULL and leaves      *)
(* every header, every free-list link and freelist_start unchanged.        *)
(***************************************************************************)
C6_TooLargeRejected ==
    [][\A n \in Sizes :
          (n > MAX_REQUEST_SIZE /\ MyMalloc(n)) =>
              /\ last'.ret = NULL
              /\ mem' = mem
              /\ freelist_start' = freelist_start]_vars

(***************************************************************************)
(* C7: zero-size allocation.  mymalloc(0) returns NULL and leaves the heap *)
(* unchanged.                                                              *)
(***************************************************************************)
C7_ZeroReturnsNull ==
    [][MyMalloc(0) =>
          /\ last'.ret = NULL
          /\ mem' = mem
          /\ freelist_start' = freelist_start]_vars

(***************************************************************************)
(* C8: maximal free runs.  After any myfree no two blocks adjacent in      *)
(* address order are both free (so three consecutive blocks released one   *)
(* after another, in any order, leave one free block).                     *)
(***************************************************************************)
NoAdjacentFree ==
    \A i \in 1..(Len(Blocks) - 1) :
        ~(check_free(mem, Blocks[i]) /\ check_free(mem, Blocks[i + 1]))

C8_MaximalFreeRuns == (status = "ready" /\ last.op = "myfree") => NoAdjacentFree

(***************************************************************************)
(* C9: out of memory.  For a request whose rounded size is at most         *)
(* MAX_REQUEST_SIZE, mymalloc(n) returns NULL if and only if no block of   *)
(* the free list has payload >= roundup(n), and when it returns NULL the   *)
(* heap is unchanged.                                                      *)
(***************************************************************************)
Fits(n) == {b \in FreeSet : get_payload(mem, b) >= roundup(n, ALIGNMENT)}

C9_OutOfMemory ==
    [][\A n \in Sizes :
          (roundup(n, ALIGNMENT) <= MAX_REQUEST_SIZE /\ MyMalloc(n)) =>
              /\ last'.ret = NULL <=> Fits(n) = {}
              /\ last'.ret = NULL =>
                     mem' = mem /\ freelist_start' = freelist_start]_vars

\* mymalloc has just failed a request within the limit although the free
\* list is not empty: a smaller request would still succeed
C9_Witness ==
    /\ status = "ready"
    /\ last.op = "mymalloc"
    /\ last.ret = NULL
    /\ last.request <= MAX_REQUEST_SIZE
    /\ freelist_start # NULL
    /\ mymalloc(Heap, 16).ret # NULL

(***************************************************************************)
(* C10: validate_heap returns true after every step of any sequence of     *)
(* calls on an initialised heap, the sequences that fill the region        *)
(* exactly included.                                                       *)
(***************************************************************************)
C10_ValidateTrue ==
    /\ status # "uninit" => validate_heap
    /\ last.op = "validate_heap" => last.ok

\* validate_heap has just returned true on a region of three used blocks
\* and no free one
C10_Witness ==
    /\ last.op = "validate_heap"
    /\ last.ok
    /\ Len(Blocks) >= 3
    /\ freelist_start = NULL

(***************************************************************************)
(* C11: initialization.  myinit(start, size) returns false exactly when    *)
(* size < 24, and then establishes nothing.  When it returns true the      *)
(* region is exactly one block, flagged free, of payload size - 8, with    *)
(* prev and next both NULL, and freelist_start points at it.               *)
(***************************************************************************)
C11_Init ==
    [][\A sz \in HeapSizes :
          MyInit(HeapBase, sz) =>
              /\ last'.ok <=> ~(sz < 24)
              /\ ~last'.ok =>
                     UNCHANGED <<mem, segment_start, freelist_start,
                                 segment_size, heap_end, status>>
              /\ last'.ok =>
                     /\ segment_start' = HeapBase
                     /\ heap_end' = HeapBase + sz
                     /\ segment_size' = sz
                     /\ BlocksFrom(mem', segment_start') = <<HeapBase>>
                     /\ check_free(mem', HeapBase)
                     /\ get_payload(mem', HeapBase) = sz - 8
                     /\ mem'[HeapBase + PREV_OFFSET] = NULL
                     /\ mem'[HeapBase + NEXT_OFFSET] = NULL
                     /\ freelist_start' = HeapBase]_vars

\* Scenario A: myinit has just returned true on a region of 64 bytes, which
\* is one free block of payload 56
C11_Witness ==
    /\ last.op = "myinit"
    /\ last.ok
    /\ segment_size = 64
    /\ Blocks = <<segment_start>>
    /\ check_free(mem, segment_start)
    /\ get_payload(mem, segment_start) = 56

(***************************************************************************)
(* C12: resize to zero equals release.  For every pointer p the caller     *)
(* holds, myrealloc(p, 0) returns NULL and leaves every word of the region *)
(* (headers and links) and freelist_start exactly as myfree(p) would leave *)
(* them from the same state.                                               *)
(***************************************************************************)
C12_ZeroIsFree ==
    [][\A p \in live :
          MyRealloc(p, 0) =>
              /\ last'.ret = NULL
              /\ status' = "ready"
              /\ mem' = myfree(Heap, p).mem
              /\ freelist_start' = myfree(Heap, p).fl]_vars

\* myrealloc(p, 0) has just returned NULL and the block of p, merged with
\* the free block that followed it, is the head of the free list
C12_Witness ==
    /\ status = "ready"
    /\ last.op = "myrealloc"
    /\ last.ptr # NULL
    /\ last.ret = NULL
    /\ freelist_start = last.ptr - ALIGNMENT
    /\ check_free(mem, freelist_start)
    /\ get_payload(mem, freelist_start) > 16
    /\ live # {}

(***************************************************************************)
(* C13: Scenario B.  On a freshly initialised region of 64 bytes (one free *)
(* block of payload 56) mymalloc(10) rounds the request to 16 and splits   *)
(* the block: a used block of payload 16 followed by a free block.         *)
(***************************************************************************)
\* myinit has just returned true on a region of 64 bytes
Fresh64 == last.op = "myinit" /\ last.ok /\ segment_size = 64

\* after the step, the region is a used block of payload 16 at its start,
\* handed out, and a free block of payload rest behind it
SplitInto(rest) ==
    /\ last'.request = 16
    /\ last'.ret = segment_start + ALIGNMENT
    /\ BlocksFrom(mem', segment_start) = <<segment_start, segment_start + 24>>
    /\ ~check_free(mem', segment_start)
    /\ get_payload(mem', segment_start) = 16
    /\ check_free(mem', segment_start + 24)
    /\ get_payload(mem', segment_start + 24) = rest

\* C13 as stated: the free block that is left has payload 24
C13_ScenarioB_Free24 == [][(Fresh64 /\ MyMalloc(10)) => SplitInto(24)]_vars

\* C13 amended: the free block that is left has payload 56 - 16 - 8 = 32,
\* and it is the whole free list
C13_ScenarioB ==
    [][(Fresh64 /\ MyMalloc(10)) =>
          /\ SplitInto(32)
          /\ freelist_start' = segment_start + 24
          /\ mem'[freelist_start' + NEXT_OFFSET] = NULL]_vars

\* the 64-byte region right after that mymalloc(10)
C13_Witness ==
    /\ status = "ready"
    /\ segment_size = 64
    /\ last.op = "mymalloc"
    /\ last.request = 16
    /\ live = {last.ret}
    /\ Blocks = <<segment_start, segment_start + 24>>
    /\ get_payload(mem, segment_start + 24) = 32
    /\ mem[segment_start + 48] = Blank(segment_start + 48)

(***************************************************************************)
(* C14: release with a free right neighbour.  When myfree(p) is called and *)
(* the block that follows the block of p in address order is free, then    *)
(* afterwards one free block starts at the header of p, its payload is the *)
(* sum of the two payloads plus 8, the neighbour is a block no more and is *)
(* not in the free list, and the merged block is in the free list exactly  *)
(* once.                                                                   *)
(***************************************************************************)
\* how many times block b is met following the free list from fl, for as
\* many steps as the region has words
TimesInList(m, fl, b) ==
    LET list == ListFrom(m, fl, Cardinality(DOMAIN m))
    IN  Cardinality({i \in DOMAIN list : list[i] = b})

C14_FreeMergesRight ==
    [][\A p \in live :
          LET block == p - ALIGNMENT
              nb == get_next_block(mem, block)
          IN  (status = "ready" /\ check_free(mem, nb) /\ MyFree(p)) =>
                  /\ check_free(mem', block)
                  /\ get_payload(mem', block) =
                         get_payload(mem, block) + get_payload(mem, nb) + 8
                  /\ \A i \in DOMAIN BlocksFrom(mem', segment_start) :
                         BlocksFrom(mem', segment_start)[i] # nb
                  /\ TimesInList(mem', freelist_start', nb) = 0
                  /\ TimesInList(mem', freelist_start', block) = 1]_vars

\* myfree has just merged the block released with its right neighbour: the
\* header of the neighbour, payload rest, is still to be read inside the
\* payload of the merged block
C14_Witness ==
    /\ status = "ready"
    /\ last.op = "myfree"
    /\ last.ptr # NULL
    /\ freelist_start = last.ptr - ALIGNMENT
    /\ check_free(mem, freelist_start)
    /\ \E own \in {16, 24, 32}, rest \in {16, 24, 32} :
           /\ get_payload(mem, freelist_start) = own + rest + 8
           /\ mem[last.ptr + own] = rest

(***************************************************************************)
(* C15: validator completeness for the free list.  validate_heap returns   *)
(* false in every heap state in which some block whose header flag says    *)
(* free is not met following the free list from freelist_start.            *)
(***************************************************************************)
\* the blocks flagged free that the free list does not hold
FreeOutsideList ==
    {b \in BlockSet :
        check_free(mem, b) /\ TimesInList(mem, freelist_start, b) = 0}

C15_ValidatorComplete ==
    (status \in {"ready", "corrupt"} /\ FreeOutsideList # {}) =>
        /\ ~validate_heap
        /\ last.op = "validate_heap" => ~last.ok

(***************************************************************************)
(* C16: split rule of mymalloc.  mymalloc splits the block found by        *)
(* first-fit only when that block is the last block in address order and   *)
(* its payload is large enough against request + 24; in every other case   *)
(* the whole block found is marked used with its payload size unchanged    *)
(* and is removed from the free list.                                      *)
(***************************************************************************)
\* the step has split block b, of payload pv: b is used with payload
\* request, and behind it lies a new free block, in the free list, that
\* ends where b ended
WasSplit(b, pv, request) ==
    /\ mem'[b] = request + 1
    /\ check_free(mem', b + request + ALIGNMENT)
    /\ get_payload(mem', b + request + ALIGNMENT) = pv - request - ALIGNMENT
    /\ TimesInList(mem', freelist_start', b + request + ALIGNMENT) = 1
    /\ TimesInList(mem', freelist_start', b) = 0
    /\ Len(BlocksFrom(mem', segment_start)) = Len(Blocks) + 1

\* the step has handed out block b whole: used, payload unchanged, out of
\* the free list
WasWhole(b) ==
    /\ mem'[b] = mem[b] + 1
    /\ TimesInList(mem', freelist_start', b) = 0
    /\ BlocksFrom(mem', segment_start) = Blocks

\* the rule; strictly tells whether the payload of a last block must be
\* strictly greater than request + 24 to be split, or at least that
SplitRule(strictly) ==
    \A n \in Sizes :
        (MyMalloc(n) /\ last'.ret # NULL) =>
            LET request == roundup(n, ALIGNMENT)
                b == search_freelist(Heap, request)
                pv == get_payload(mem, b)
                enough == IF strictly THEN pv > request + 24
                                      ELSE pv >= request + 24
            IN  /\ last'.ret = b + ALIGNMENT
                /\ IF b + pv + ALIGNMENT = heap_end /\ enough
                   THEN WasSplit(b, pv, request)
                   ELSE WasWhole(b)

\* C16 as stated: split only when the payload is strictly greater than
\* request + 24
C16_SplitRule_Strict == [][SplitRule(TRUE)]_vars

\* C16 amended: split when the payload is at least request + 24
C16_SplitRule == [][SplitRule(FALSE)]_vars

\* mymalloc has just split a last block of payload 40 = 16 + 24 exactly:
\* the region of 48 bytes is a used block of 16 and a free block of 16
C16_Witness ==
    /\ status = "ready"
    /\ segment_size = 48
    /\ last.op = "mymalloc"
    /\ last.request = 16
    /\ last.ret = segment_start + ALIGNMENT
    /\ live = {last.ret}
    /\ Blocks = <<segment_start, segment_start + 24>>
    /\ freelist_start = segment_start + 24
    /\ get_payload(mem, freelist_start) = 16

(***************************************************************************)
(* C17: in-place resize of a block that is not the last.  When             *)
(* myrealloc(p, n) is satisfied in place (it returns p) and the end of the *)
(* block is not heap_end, then whenever the payload of the block after the *)
(* coalescing loop is >= request + 24 the excess is split off as a free    *)
(* block, and on return the block of p has payload exactly request.        *)
(***************************************************************************)
C17_InPlaceSplit ==
    [][\A p \in live, n \in Sizes \ {0} :
          LET request == roundup(n, ALIGNMENT)
              block == p - ALIGNMENT
              cur == get_payload(
                         coalesce_multiple_blocks(Heap, block, request).mem,
                         block)
          IN  (/\ status = "ready"
               /\ MyRealloc(p, n)
               /\ last'.ret = p
               /\ p + cur # heap_end
               /\ cur >= request + 24) =>
                  /\ mem'[block] = request + 1
                  /\ check_free(mem', p + request)]_vars

(***************************************************************************)
(* C18: first-fit in list order.  When mymalloc(n) succeeds, the block it  *)
(* hands out is the first block, in the order of the free list from        *)
(* freelist_start, whose payload is >= roundup(n): no block before it in   *)
(* the list has sufficient payload, and the pointer returned is the        *)
(* address of its header + 8.  The list is in insertion order, the block   *)
(* released last being first, not in address order.                        *)
(***************************************************************************)
C18_FirstFit ==
    [][/\ \A n \in Sizes :
             (MyMalloc(n) /\ last'.ret # NULL) =>
                 \E i \in DOMAIN FreeList :
                     /\ last'.ret = FreeList[i] + 8
                     /\ get_payload(mem, FreeList[i]) >= roundup(n, ALIGNMENT)
                     /\ \A j \in 1..(i - 1) :
                            get_payload(mem, FreeList[j]) < roundup(n, ALIGNMENT)
       /\ \A p \in live :
             (status = "ready" /\ MyFree(p)) =>
                 freelist_start' = p - ALIGNMENT]_vars

\* mymalloc has just handed out a block although a free block that fits
\* lies at a lower address: that one was further down the list
C18_Witness ==
    /\ status = "ready"
    /\ last.op = "mymalloc"
    /\ last.ret # NULL
    /\ \E b \in FreeSet :
           /\ b < last.ret - ALIGNMENT
           /\ get_payload(mem, b) >= last.request

(***************************************************************************)
(* C19: termination of resize.  In every reachable state the coalescing    *)
(* loop of myrealloc (coalesce_multiple_blocks) terminates: each iteration *)
(* strictly increases the payload of the block and removes one block from  *)
(* the free list, so the loop makes at most as many coalesce steps as      *)
(* there are free blocks.                                                  *)
(***************************************************************************)
\* the heaps after each iteration of the loop of coalesce_multiple_blocks,
\* for at most fuel iterations
RECURSIVE CoalesceRun(_, _, _, _)
CoalesceRun(hp, block, req, fuel) ==
    IF fuel = 0
       \/ ~(check_free(hp.mem, get_next_block(hp.mem, block))
            /\ get_payload(hp.mem, block) < req)
    THEN <<>>
    ELSE <<coalesce(hp, block)>>
             \o CoalesceRun(coalesce(hp, block), block, req, fuel - 1)

C19_CoalesceTerminates ==
    status = "ready" =>
        \A p \in live, n \in Sizes \ {0} :
            LET req == roundup(n, ALIGNMENT)
                block == p - ALIGNMENT
                run == CoalesceRun(Heap, block, req, Cardinality(FreeSet) + 1)
                hs == <<Heap>> \o run
            IN  /\ Len(run) <= Cardinality(FreeSet)
                /\ \A i \in 1..Len(run) :
                       /\ get_payload(hs[i + 1].mem, block)
                              > get_payload(hs[i].mem, block)
                       /\ Len(FreeListOf(hs[i + 1].mem, hs[i + 1].fl))
                              = Len(FreeListOf(hs[i].mem, hs[i].fl)) - 1
                /\ coalesce_multiple_blocks(Heap, block, req) = hs[Len(hs)]

\* myrealloc has just grown a block in place over two free blocks, one
\* coalesce step each: their headers, payload 16, are still to be read
\* inside its payload of 16 + 24 + 24
C19_Witness ==
    /\ status = "ready"
    /\ last.op = "myrealloc"
    /\ last.ptr # NULL
    /\ last.ret = last.ptr
    /\ last.request = 48
    /\ get_payload(mem, last.ptr - ALIGNMENT) = 64
    /\ mem[last.ptr + 16] = 16
    /\ mem[last.ptr + 40] = 16

(***************************************************************************)
(* C20: partition invariant of the implicit variant.  In implicit.c, after *)
(* myinit on a region whose size is a multiple of 8 and at least 16, and   *)
(* after any sequence of valid mymalloc, myfree and myrealloc calls,       *)
(* walking from segment_start by 8 + payload lands exactly on heap_end, so *)
(* validate_heap returns true.                                             *)
(***************************************************************************)
C20_ImplicitPartition ==
    status = "ready" =>
        /\ WalkEnd(mem, segment_start) = heap_end
        /\ validate_heap_implicit
        /\ last.op = "validate_heap" => last.ok

(***************************************************************************)
(* C21: minimum block size.  In every state reachable from myinit with a   *)
(* region size that is a multiple of 8 and at least 24, the header of      *)
(* every block is a multiple of 8 plus the flag 0 or 1, and its payload is *)
(* at least 16 bytes, so that the prev and next links of every free block  *)
(* lie inside its payload, before the header of the next block.            *)
(***************************************************************************)
C21_MinimumBlock ==
    status # "uninit" =>
        \A b \in BlockSet :
            /\ AndMask(mem[b], FREE_MASK) \in {0, 1}
            /\ get_payload(mem, b) % 8 = 0
            /\ get_payload(mem, b) >= 16
            /\ check_free(mem, b) =>
                   /\ b + PREV_OFFSET >= b + ALIGNMENT
                   /\ b + NEXT_OFFSET + 8 <= b + ALIGNMENT + get_payload(mem, b)
                   /\ (b + NEXT_OFFSET) \in DOMAIN mem

\* myfree has just released a block of the minimum payload, 16, that is
\* followed by another block: its next link is the last word before that
\* block's header
C21_Witness ==
    /\ status = "ready"
    /\ last.op = "myfree"
    /\ last.ptr # NULL
    /\ check_free(mem, last.ptr - ALIGNMENT)
    /\ get_payload(mem, last.ptr - ALIGNMENT) = 16
    /\ (last.ptr + 16) \in BlockSet

====
